---- MODULE Spec2Model ----
(***************************************************************************)
(* Model of the automcp / auto_mcp adapter toolkit: building a wrapper     *)
(* around a framework object and the invocations of that wrapper on a      *)
(* single-threaded cooperative event loop (asyncio).                       *)
(*                                                                         *)
(* One wrapper is built from one target; MaxCalls invocations of it are    *)
(* started and interleave at their suspension points only.  The target is  *)
(* the worst-case target for output: it writes to standard output and to   *)
(* the error stream every time its code gets to run.                       *)
(***************************************************************************)
EXTENDS Integers, Sequences, FiniteSets, TLC

\* Number of invocations of the wrapper (tasks the host starts).
MaxCalls == 2

Calls == 1..MaxCalls

\* sys.stdout is the real stream (0) or the io.StringIO() that invocation i
\* created for its redirect_stdout scope (i).
RealStream == 0
Streams == 0..MaxCalls

\* Exceptions a target, constructor or agent step can raise (subclasses of
\* Exception), and str(e) of each.
Errors == {"RuntimeError", "KeyError"}

Str(e) == IF e = "RuntimeError" THEN "boom" ELSE "'k'"

VARIABLES
    wrapper,    \* the closure built by the adapter, or NoWrapper
    target,     \* the wrapped framework object as it is now
    stdout,     \* the stream sys.stdout names
    realOut,    \* <<invocation, writer>> whose text reached the real stdout
    captured,   \* <<invocation, writer>> whose text went into a StringIO
    errOut,     \* <<invocation, writer>> whose text reached the real stderr
    cur,        \* the invocation whose task holds the event loop, 0 if none
    pc,         \* position of each invocation in the wrapper
    valid,      \* whether the arguments of each invocation fit the schema
    saved,      \* redirect_stdout's saved stream (_old_targets) per invocation
    res,        \* raw result of the target as the wrapper sees it
    outcome,    \* what the wrapper's caller receives
    cancelReq,  \* the caller cancelled the invocation's task
    ctorRuns,   \* constructor runs per invocation
    inst,       \* the instance the method was resolved on
    calls,      \* calls of the entry point per invocation
    mode,       \* how the entry point was called: "await" or "direct"
    fut,        \* mcp-agent: state of result_future per invocation
    bg,         \* mcp-agent: position of isolated_agent_task per invocation
    bgCancelReq,\* mcp-agent: task.cancel() was called on the agent task
    hist,       \* mcp-agent: what isolated_agent_task did, in order
    ret,        \* the value the wrapper returned, after its post-processing
    arg,        \* input of the function under study (build step, normalizer)
    out,        \* its result
    phase       \* where the study of that function is

\* The wrapper and its invocations.
mainVars == <<wrapper, target, stdout, realOut, captured, errOut, cur, pc,
              valid, saved, res, outcome, cancelReq, ctorRuns, inst, calls,
              mode, fut, bg, bgCancelReq, hist, ret>>

\* The function studied on its own and its input and result.
pureVars == <<arg, out, phase>>

vars == <<mainVars, pureVars>>

NoWrapper == [adapter |-> "none"]

(***************************************************************************)
(* The adapters.  Adapters whose generated wrapper is the same code share  *)
(* one name: the two create_crewai_tool_adapter of automcp are             *)
(* "crewai_tool", the two create_langchain_tool_adapter and the auto_mcp   *)
(* CrewaiToolAdapter (which returns the raw result) are "langchain_tool",  *)
(* create_openai_adapter and create_openai_agent_adapter are               *)
(* "openai_agent".                                                         *)
(*   wasync : the wrapper is an "async def"                                *)
(*   scope  : the wrapper opens contextlib.redirect_stdout(io.StringIO())  *)
(*   await  : how the await keyword of the call is decided                 *)
(*              inspect - inspect.iscoroutinefunction at build time        *)
(*              always  - the body always awaits                           *)
(*              never   - the body never awaits                            *)
(*              param   - the is_async_tool argument of the adapter        *)
(*   ctor   : per-call instantiation of a class target, and where          *)
(*              outside - framework_obj() before the scope is opened       *)
(*              inside  - framework_obj() inside the scope                 *)
(*   lookup : where the wrapper resolves the entry point by name           *)
(*              before - getattr(...) before the scope is opened           *)
(*              inside - attribute access inside the scope                 *)
(*              none   - the callable itself is closed over                *)
(*   check  : what the adapter checks of the target when it builds         *)
(*   policy : propagate or report a failure of the target                  *)
(***************************************************************************)
Adapters ==
    {"function", "langgraph_adapter", "openai_class", "crewai_class",
     "llamaindex_adapter", "crewai_tool", "langchain_tool", "langgraph",
     "openai_agent", "pydantic", "llamaindex_agent", "llamaindex_tool",
     "crewai_agent", "crewai_orchestrator", "mcp_agent"}

Trait(wasync, scope, aw, ctor, lookup, check, policy) ==
    [wasync |-> wasync, scope |-> scope, await |-> aw, ctor |-> ctor,
     lookup |-> lookup, check |-> check, policy |-> policy]

FunctionAdapter ==
    Trait(TRUE, TRUE, "inspect", "none", "none", "none", "propagate")

LangGraphAdapter ==
    Trait(TRUE, TRUE, "inspect", "outside", "before", "class_or_function",
          "propagate")

OpenAIAdapter ==
    Trait(TRUE, TRUE, "inspect", "outside", "before", "class_or_function",
          "propagate")

CrewAIAdapter ==
    Trait(FALSE, TRUE, "never", "inside", "inside", "none", "propagate")

LlamaIndexAdapter ==
    Trait(TRUE, TRUE, "always", "outside", "inside", "attr", "propagate")

create_crewai_tool_adapter ==
    Trait(TRUE, TRUE, "inspect", "none", "before", "callable_attr",
          "propagate")

create_langchain_tool_adapter ==
    Trait(TRUE, TRUE, "inspect", "none", "before", "callable_attr",
          "propagate")

create_langgraph_adapter ==
    Trait(TRUE, TRUE, "always", "none", "inside", "none", "propagate")

create_openai_adapter ==
    Trait(TRUE, TRUE, "always", "none", "none", "none", "propagate")

create_pydantic_adapter ==
    Trait(TRUE, TRUE, "always", "none", "inside", "none", "propagate")

create_llamaindex_agent_adapter ==
    Trait(TRUE, TRUE, "always", "none", "inside", "none", "propagate")

create_llamaindex_tool_adapter ==
    Trait(FALSE, TRUE, "param", "none", "before", "none", "propagate")

create_crewai_agent_adapter ==
    Trait(FALSE, TRUE, "never", "none", "none", "none", "propagate")

create_crewai_orchestrator_adapter ==
    Trait(FALSE, TRUE, "never", "none", "inside", "none", "propagate")

create_mcp_agent_adapter ==
    Trait(TRUE, FALSE, "always", "none", "inside", "none", "report")

Cfg(a) ==
    CASE a = "function" -> FunctionAdapter
      [] a = "langgraph_adapter" -> LangGraphAdapter
      [] a = "openai_class" -> OpenAIAdapter
      [] a = "crewai_class" -> CrewAIAdapter
      [] a = "llamaindex_adapter" -> LlamaIndexAdapter
      [] a = "crewai_tool" -> create_crewai_tool_adapter
      [] a = "langchain_tool" -> create_langchain_tool_adapter
      [] a = "langgraph" -> create_langgraph_adapter
      [] a = "openai_agent" -> create_openai_adapter
      [] a = "pydantic" -> create_pydantic_adapter
      [] a = "llamaindex_agent" -> create_llamaindex_agent_adapter
      [] a = "llamaindex_tool" -> create_llamaindex_tool_adapter
      [] a = "crewai_agent" -> create_crewai_agent_adapter
      [] a = "crewai_orchestrator" -> create_crewai_orchestrator_adapter
      [] a = "mcp_agent" -> create_mcp_agent_adapter

(***************************************************************************)
(* The target handed to the adapter.                                       *)
(*   kind    : a class, a plain function or a constructed instance         *)
(*   has     : the entry point the wrapper will call exists on it          *)
(*   isasync : that entry point is a coroutine function                    *)
(***************************************************************************)
Tgt(kind, has, isasync) == [kind |-> kind, has |-> has, isasync |-> isasync]

NoTarget == Tgt("none", FALSE, FALSE)

TargetsFor(a) ==
    CASE a = "function" ->
            {Tgt("function", TRUE, x) : x \in BOOLEAN}
      [] a \in {"langgraph_adapter", "openai_class"} ->
            {Tgt("class", h, x) : h, x \in BOOLEAN}
            \cup {Tgt("function", TRUE, x) : x \in BOOLEAN}
            \cup {Tgt("instance", TRUE, TRUE)}
      [] a = "crewai_class" ->
            {Tgt("class", h, FALSE) : h \in BOOLEAN}
      [] a = "llamaindex_adapter" ->
            {Tgt(k, h, TRUE) : k \in {"class", "instance"}, h \in BOOLEAN}
      [] a \in {"openai_agent", "crewai_agent", "mcp_agent"} ->
            {Tgt("instance", TRUE, Cfg(a).wasync)}
      [] a = "crewai_orchestrator" ->
            {Tgt("instance", h, FALSE) : h \in BOOLEAN}
      [] OTHER ->
            {Tgt("instance", h, x) : h, x \in BOOLEAN}

\* The adapter's check of the target while it builds the wrapper.
BuildCheck(a, t) ==
    CASE Cfg(a).check = "none" -> TRUE
      [] Cfg(a).check = "class_or_function" ->
            \/ t.kind = "class" /\ t.has
            \/ t.kind = "function"
      [] Cfg(a).check = "attr" -> t.has
      [] Cfg(a).check = "callable_attr" -> t.has

\* is_run_async / await_kw: decided from the adapter's one look at the target.
IsRunAsync(a, t, p) ==
    CASE Cfg(a).await = "inspect" -> t.isasync
      [] Cfg(a).await = "always" -> TRUE
      [] Cfg(a).await = "never" -> FALSE
      [] Cfg(a).await = "param" -> p

\* Variant: the wrapper is an async def only when its target is awaited.
ClosureAsyncIfAwaited(a, t, p) ==
    [adapter |-> a,
     awaitKw |-> IsRunAsync(a, t, p),
     isClass |-> (t.kind = "class"),
     wasync  |-> IsRunAsync(a, t, p)]

\* The closure the adapter returns.
Closure(a, t, p) ==
    [adapter |-> a,
     awaitKw |-> IsRunAsync(a, t, p),
     isClass |-> (t.kind = "class"),
     wasync  |-> IF Cfg(a).await = "param" THEN p ELSE Cfg(a).wasync]

None == [kind |-> "none", val |-> ""]
Returns(v) == [kind |-> "return", val |-> v]
Raises(e) == [kind |-> "raise", val |-> e]
\* The mapping {"status": "error", "message": m}.
ErrorPayload(m) == [kind |-> "payload", val |-> m]

(***************************************************************************)
(* Values a target can return and the Result Normalizer                    *)
(* (ensure_serializable).  A value is a record tagged by its Python type:  *)
(* None, bool, number, str, list, dict, tuple or any other object.  An     *)
(* object carries what the normalizer looks at: its to_dict and model_dump *)
(* attributes, its __dict__, its results attribute and its str().          *)
(***************************************************************************)
NoValue == [t |-> "none"]

JNull == [t |-> "null"]
JBool(b) == [t |-> "bool", b |-> b]
JNum(n) == [t |-> "num", n |-> n]
JStr(s) == [t |-> "str", s |-> s]
JList(items) == [t |-> "list", items |-> items]

\* An attribute: absent, present but not callable, a method that raises, a
\* method that returns v.
Absent == [c |-> "absent"]
NotCallable == [c |-> "attr"]
RaisesOnCall == [c |-> "raises"]
Gives(v) == [c |-> "returns", v |-> v]
\* A data attribute holding v.
Holds(v) == [c |-> "value", v |-> v]

\* A dict, or an instance of a dict subclass that defines to_dict.
DictLike(m, td) == [t |-> "dict", m |-> m, to_dict |-> td]
JDict(m) == DictLike(m, Absent)

Tuple(items) == [t |-> "tuple", items |-> items]

\* A list or dict that contains itself: the reference back to the value
\* the normalizer was called on.
Loop == [t |-> "loop"]

\* __dict__ of an object: none (__slots__), or the mapping of its instance
\* attributes.
NoDict == [has |-> FALSE]
Attrs(m) == [has |-> TRUE, m |-> m]

Object(td, md, d, rs, repr) ==
    [t |-> "obj", to_dict |-> td, model_dump |-> md, dict |-> d,
     results |-> rs, repr |-> repr]

\* An exception leaving ensure_serializable.
Raised(e) == [t |-> "raised", e |-> e]

\* Variant: a placeholder instead of the object's own text.
StrAsPlaceholder(v) == JStr("<unserializable>")

\* str(obj): a str stays itself, an object gives what its __str__ returns,
\* any other value its rendering.
StrOf(v) ==
    IF v.t = "str" THEN v
    ELSE IF v.t = "obj" THEN JStr(v.repr)
    ELSE [t |-> "str", of |-> v]

\* Variant: numbers are not among the types returned as they are.
IsBasicNoNumbers(v) == v.t \in {"dict", "list", "str", "bool", "null"}

\* isinstance(obj, (dict, list, str, int, float, bool, type(None)))
IsBasic(v) == v.t \in {"dict", "list", "str", "num", "bool", "null"}

\* hasattr(obj, name) and callable(getattr(obj, name))
HasCallable(v, name) ==
    /\ v.t = "obj"
    /\ v[name].c \in {"raises", "returns"}

\* k.startswith('_')
StartsWithUnderscore(k) == k \in {"_p", "_q"}

\* {k: v for k, v in obj.__dict__.items() if not k.startswith('_')}
PublicAttrs(v) ==
    JDict([k \in {x \in DOMAIN v.dict.m : ~StartsWithUnderscore(x)}
              |-> v.dict.m[k]])

\* The first exception among the results of a comprehension, if any: the
\* comprehension stops at the first item whose conversion raises.
FirstRaised(rs) ==
    LET bad == {i \in DOMAIN rs : rs[i].t = "raised"}
    IN  IF bad = {} THEN NoValue
        ELSE rs[CHOOSE i \in bad : \A j \in bad : i <= j]

\* Variant: the list is returned without converting its items.
ItemsKept(items, conv) == JList(items)

\* [ensure_serializable(item) for item in obj]
ItemsConverted(items, conv) ==
    IF FirstRaised(conv) # NoValue THEN FirstRaised(conv) ELSE JList(conv)

\* {k: ensure_serializable(v) for k, v in obj.items()}
ValuesConverted(conv) ==
    LET bad == {k \in DOMAIN conv : conv[k].t = "raised"}
    IN  IF bad = {} THEN JDict(conv)
        ELSE conv[CHOOSE k \in bad : TRUE]

\* except Exception: return str(obj)
Recover(r, obj) == IF r.t = "raised" THEN StrOf(obj) ELSE r

\* Variant: the mapping to_dict() returned is handed back as it is.
ToDictKept(given, conv) == given

\* return ensure_serializable(obj.to_dict())
ToDictConverted(given, conv) == conv

\* The interpreter's recursion limit in frames of ensure_serializable: it
\* is never reached by a value that does not contain itself.
MaxDepth == 2
RecursionLimit == 2 * MaxDepth + 2

\* Variant: model_dump is tried before to_dict.
StrategyModelDumpFirst(obj) ==
    IF HasCallable(obj, "model_dump") THEN "model_dump"
    ELSE IF HasCallable(obj, "to_dict") THEN "to_dict"
    ELSE IF obj.t = "obj" /\ obj.dict.has THEN "dict"
    ELSE IF obj.t = "obj" /\ obj.results.c = "value" THEN "results"
    ELSE "none"

\* The if / elif chain inside the try block: the conversion that is used.
Strategy(obj) ==
    IF HasCallable(obj, "to_dict") THEN "to_dict"
    ELSE IF HasCallable(obj, "model_dump") THEN "model_dump"
    ELSE IF obj.t = "obj" /\ obj.dict.has THEN "dict"
    ELSE IF obj.t = "obj" /\ obj.results.c = "value" THEN "results"
    ELSE "none"

\* ensure_serializable(obj), called with `room` frames left, on a value of
\* the graph whose top is `top`.
RECURSIVE EnsureSerializable(_, _, _)
EnsureSerializable(obj, top, room) ==
    LET rec(v) == EnsureSerializable(v, top, room - 1)
    IN
    IF room = 0 THEN Raised("RecursionError")
    ELSE IF obj.t = "loop" THEN EnsureSerializable(top, top, room)
    ELSE IF IsBasic(obj) THEN
        IF obj.t = "dict"
        THEN ValuesConverted([k \in DOMAIN obj.m |-> rec(obj.m[k])])
        ELSE IF obj.t = "list"
        THEN ItemsConverted(obj.items,
                            [i \in DOMAIN obj.items |-> rec(obj.items[i])])
        ELSE obj
    ELSE Recover(
        CASE Strategy(obj) = "to_dict" ->
               IF obj.to_dict.c = "raises" THEN Raised("RuntimeError")
               ELSE ToDictConverted(obj.to_dict.v, rec(obj.to_dict.v))
          [] Strategy(obj) = "model_dump" ->
               IF obj.model_dump.c = "raises" THEN Raised("RuntimeError")
               ELSE rec(obj.model_dump.v)
          [] Strategy(obj) = "dict" -> rec(PublicAttrs(obj))
          [] Strategy(obj) = "results" ->
               IF obj.results.v.t = "list"
               THEN ItemsConverted(obj.results.v.items,
                       [i \in DOMAIN obj.results.v.items
                           |-> rec(obj.results.v.items[i])])
               ELSE rec(obj.results.v)
          [] Strategy(obj) = "none" -> StrOf(obj),
        obj)

ensure_serializable(obj) == EnsureSerializable(obj, obj, RecursionLimit)

\* The state before an adapter is called.
Idle ==
    /\ wrapper = NoWrapper
    /\ target = NoTarget
    /\ stdout = RealStream
    /\ realOut = {}
    /\ captured = {}
    /\ errOut = {}
    /\ cur = 0
    /\ pc = [i \in Calls |-> "idle"]
    /\ valid = [i \in Calls |-> TRUE]
    /\ saved = [i \in Calls |-> RealStream]
    /\ res = [i \in Calls |-> None]
    /\ outcome = [i \in Calls |-> None]
    /\ cancelReq = [i \in Calls |-> FALSE]
    /\ ctorRuns = [i \in Calls |-> 0]
    /\ inst = [i \in Calls |-> 0]
    /\ calls = [i \in Calls |-> 0]
    /\ mode = [i \in Calls |-> "none"]
    /\ fut = [i \in Calls |-> None]
    /\ bg = [i \in Calls |-> "none"]
    /\ bgCancelReq = [i \in Calls |-> FALSE]
    /\ hist = [i \in Calls |-> <<>>]
    /\ ret = [i \in Calls |-> NoValue]

Init ==
    /\ Idle
    /\ arg = NoValue
    /\ out = NoValue
    /\ phase = "off"

scopeVars == <<stdout, saved>>
outVars == <<realOut, captured, errOut>>
countVars == <<ctorRuns, inst, calls, mode>>
agentVars == <<fut, bg, bgCancelReq, hist>>

\* Variant: a class target is instantiated to look at its method.
InstantiatedAtBuild(a, t) ==
    IF t.kind = "class" THEN {<<0, "ctor">>} ELSE {}

\* The writes of the target while the adapter builds the wrapper (<<0, who>>:
\* outside every invocation).  The adapters look at the target with
\* inspect.isclass, hasattr, getattr, callable and
\* inspect.iscoroutinefunction only: nothing of the target runs.
TargetRunsAtBuild(a, t) == {}

\* The adapter's create/convert function: it raises (no wrapper) or returns
\* the closure.  The target is not run.
Build(a, t, p) ==
    /\ wrapper = NoWrapper
    /\ target = NoTarget
    /\ target' = t
    /\ wrapper' = IF BuildCheck(a, t) THEN Closure(a, t, p) ELSE NoWrapper
    /\ realOut' = realOut \cup TargetRunsAtBuild(a, t)
    /\ errOut' = errOut \cup TargetRunsAtBuild(a, t)
    /\ UNCHANGED <<scopeVars, captured, countVars, agentVars, cur, pc, valid,
                   res, outcome, cancelReq>>
    /\ UNCHANGED <<ret, pureVars>>

\* A write of the target's code: print() goes to whatever sys.stdout names
\* now, the error stream is the real one.
Emit(i, who) ==
    /\ realOut' = IF stdout = RealStream THEN realOut \cup {<<i, who>>}
                  ELSE realOut
    /\ captured' = IF stdout # RealStream THEN captured \cup {<<i, who>>}
                   ELSE captured
    /\ errOut' = errOut \cup {<<i, who>>}

(***************************************************************************)
(* One invocation of the wrapper.  The event loop runs one task at a time: *)
(* an invocation keeps the loop (cur = i) from the step that starts or     *)
(* resumes it to its next suspension point or its end.                     *)
(***************************************************************************)
\* Position after the arguments validated.
AfterLookup(w) == "enter"

\* The class adapters resolve the method by name only for a class target; a
\* function target is closed over and called directly.
LooksUp(w, where) ==
    /\ Cfg(w.adapter).lookup = where
    /\ Cfg(w.adapter).check = "class_or_function" => w.isClass

AfterCtorOutside(w) ==
    IF LooksUp(w, "before") THEN "lookup" ELSE AfterLookup(w)

AfterValidate(w) ==
    IF w.adapter = "mcp_agent" THEN "spawn"
    ELSE IF Cfg(w.adapter).ctor = "outside" /\ w.isClass THEN "ctor"
    ELSE AfterCtorOutside(w)

AfterEnter(w) ==
    IF Cfg(w.adapter).ctor = "inside" THEN "ctor" ELSE "call"

\* The host calls the wrapper: run_agent(...) / run_tool(...).
Start(i, v) ==
    /\ wrapper # NoWrapper
    /\ cur = 0
    /\ pc[i] = "idle"
    /\ \A j \in Calls : j < i => pc[j] # "idle"
    /\ pc' = [pc EXCEPT ![i] = "validate"]
    /\ valid' = [valid EXCEPT ![i] = v]
    /\ cur' = i
    /\ UNCHANGED <<wrapper, target, scopeVars, outVars, countVars, agentVars,
                   res, outcome, cancelReq>>
    /\ UNCHANGED <<ret, pureVars>>

\* Variant: the arguments are passed on without being checked.
ConformsUnchecked(i) == TRUE

\* Whether input_schema(...) accepts the arguments of invocation i.
Conforms(i) == valid[i]

\* input_data = input_schema(...): the first statement of every wrapper.
Validate(i) ==
    /\ cur = i
    /\ pc[i] = "validate"
    /\ IF Conforms(i)
       THEN /\ pc' = [pc EXCEPT ![i] = AfterValidate(wrapper)]
            /\ UNCHANGED <<outcome, cur>>
       ELSE /\ pc' = [pc EXCEPT ![i] = "done"]
            /\ outcome' = [outcome EXCEPT ![i] = Raises("ValidationError")]
            /\ cur' = 0
    /\ UNCHANGED <<wrapper, target, scopeVars, outVars, countVars, agentVars,
                   valid, res, cancelReq>>
    /\ UNCHANGED <<ret, pureVars>>

\* Variant: one instance made on the first call and kept for the later ones.
CachedInstance(i) == 1

\* agent_instance = framework_obj(): a new instance for this call.  The
\* constructor is the target's code and writes like the rest of it.
NewInstance(i) == i

Instantiate(i) ==
    /\ cur = i
    /\ pc[i] = "ctor"
    /\ ctorRuns' = [ctorRuns EXCEPT ![i] = @ + 1]
    /\ inst' = [inst EXCEPT ![i] = NewInstance(i)]
    /\ Emit(i, "ctor")
    /\ pc' = [pc EXCEPT ![i] =
                IF Cfg(wrapper.adapter).ctor = "inside" THEN "call"
                ELSE AfterCtorOutside(wrapper)]
    /\ UNCHANGED <<wrapper, target, scopeVars, agentVars, cur, valid, res,
                   outcome, cancelReq, calls, mode>>
    /\ UNCHANGED <<ret, pureVars>>

\* run_func = getattr(tool_instance, '<name>') before the scope is opened.
Lookup(i) ==
    /\ cur = i
    /\ pc[i] = "lookup"
    /\ IF target.has
       THEN /\ pc' = [pc EXCEPT ![i] = AfterLookup(wrapper)]
            /\ UNCHANGED <<outcome, cur>>
       ELSE /\ pc' = [pc EXCEPT ![i] = "done"]
            /\ outcome' = [outcome EXCEPT ![i] = Raises("AttributeError")]
            /\ cur' = 0
    /\ UNCHANGED <<wrapper, target, scopeVars, outVars, countVars, agentVars,
                   valid, res, cancelReq>>
    /\ UNCHANGED <<ret, pureVars>>

\* redirect_stdout.__enter__: remember sys.stdout, install the new StringIO.
EnterScope(i) ==
    /\ saved' = [saved EXCEPT ![i] = stdout]
    /\ stdout' = i

Enter(i) ==
    /\ cur = i
    /\ pc[i] = "enter"
    /\ EnterScope(i)
    /\ pc' = [pc EXCEPT ![i] = AfterEnter(wrapper)]
    /\ UNCHANGED <<wrapper, target, outVars, countVars, agentVars, cur, valid,
                   res, outcome, cancelReq>>
    /\ UNCHANGED <<ret, pureVars>>

\* What a run of the target's entry point can end with.
Results == {Returns("v"), Returns("obj")} \cup {Raises(e) : e \in Errors}

(***************************************************************************)
(* What the wrapper does with the raw result before it returns it.         *)
(***************************************************************************)
\* An object without anything the normalizer or a wrapper looks for.
Opaque(repr) == Object(Absent, Absent, NoDict, Absent, repr)

\* A result object of a framework: a validated model with public and
\* private attributes.
ResultObject ==
    Object(Absent,
           Gives(JDict([output |-> JStr("v")])),
           Attrs([final_output |-> JStr("v"), data |-> JStr("v"),
                  _p |-> Opaque("<state>")]),
           Absent,
           "<result>")

\* The value a raw result stands for: a plain string, a framework's result
\* object, a coroutine object.
Denote(val) ==
    CASE val = "v" -> JStr("v")
      [] val = "obj" -> ResultObject
      [] val = "coroutine" -> Opaque("<coroutine>")

\* hasattr(v, name): instance attributes only.
HasAttr(v, name) == v.t = "obj" /\ v.dict.has /\ name \in DOMAIN v.dict.m

\* v.<name>
GetAttr(v, name) ==
    IF HasAttr(v, name) THEN v.dict.m[name] ELSE Raised("AttributeError")

\* result.model_dump_json(): the JSON text of what model_dump() gives.
ModelDumpJson(v) ==
    IF ~HasCallable(v, "model_dump") THEN Raised("AttributeError")
    ELSE IF v.model_dump.c = "raises" THEN Raised("RuntimeError")
    ELSE [t |-> "str", json_of |-> v.model_dump.v]

\* How each wrapper ends after the call.
Post(a) ==
    CASE a \in {"crewai_tool", "langgraph", "llamaindex_tool"} -> "ensure"
      [] a \in {"function", "langgraph_adapter", "llamaindex_adapter",
                "langchain_tool", "mcp_agent"} -> "raw"
      [] a = "openai_class" -> "dict_or_response"
      [] a = "openai_agent" -> "final_output"
      [] a = "pydantic" -> "data_or_raw"
      [] a = "llamaindex_agent" -> "str"
      [] a \in {"crewai_class", "crewai_agent", "crewai_orchestrator"} ->
            "model_dump_json"

\* The statements between the call and the return of the wrapper.
PostProcess(a, v) ==
    CASE Post(a) = "ensure" -> ensure_serializable(v)
      [] Post(a) = "raw" -> v
      [] Post(a) = "dict_or_response" ->
            IF v.t = "dict" THEN v ELSE JDict([response |-> StrOf(v)])
      [] Post(a) = "final_output" -> GetAttr(v, "final_output")
      [] Post(a) = "data_or_raw" ->
            IF HasAttr(v, "data") THEN GetAttr(v, "data")
            ELSE IF HasAttr(v, "raw") THEN GetAttr(v, "raw")
            ELSE v
      [] Post(a) = "str" -> StrOf(v)
      [] Post(a) = "model_dump_json" -> ModelDumpJson(v)

\* The result of the call as the wrapper's last statements leave it: an
\* attribute the raw result lacks raises there.
Finish(w, r) ==
    IF r.kind = "return" /\ PostProcess(w.adapter, Denote(r.val)).t = "raised"
    THEN Raises(PostProcess(w.adapter, Denote(r.val)).e)
    ELSE r

\* The value handed to the caller, if the wrapper returns.
Returned(w, r) ==
    IF Finish(w, r).kind = "return" THEN PostProcess(w.adapter, Denote(r.val))
    ELSE IF Finish(w, r).kind = "payload"
    THEN JDict([status |-> JStr("error"), message |-> JStr(r.val)])
    ELSE NoValue

\* Variant: the stream is put back after a normal return only (no
\* try/finally around the call).
ExitScopeOnReturnOnly(i) ==
    stdout' = IF res[i].kind = "return" THEN saved[i] ELSE stdout

\* redirect_stdout.__exit__: put back the stream remembered at entry.  The
\* with statement runs it on return, on an exception and on cancellation.
ExitScope(i) == stdout' = saved[i]

\* Variant: a failure of the target is turned into an error mapping.
PropagateAsPayload(r) ==
    IF r.kind = "raise" THEN ErrorPayload(Str(r.val)) ELSE r

\* No except clause around the call: the wrapper's caller gets what the call
\* gave.
Propagate(r) == r

\* Variant: the body looks at the entry point again on every call.
AwaitsCallReinspected(w, t) == t.isasync

\* The await keyword of the generated body: await_kw, decided when the
\* wrapper was built, whatever the entry point is now.
AwaitsCall(w, t) == w.awaitKw

\* result = [await] run_func(**input_dict), inside the scope.
\*   r    : how the target's body ends if it ends in this step
\*   susp : an awaited coroutine suspends instead
Call(i, r, susp) ==
    /\ cur = i
    /\ pc[i] = "call"
    /\ IF LooksUp(wrapper, "inside") /\ ~target.has
       THEN \* the attribute is missing
            /\ res' = [res EXCEPT ![i] = Raises("AttributeError")]
            /\ pc' = [pc EXCEPT ![i] = "exit"]
            /\ UNCHANGED <<outVars, calls, mode, cur>>
       ELSE /\ calls' = [calls EXCEPT ![i] = @ + 1]
            /\ mode' = [mode EXCEPT ![i] =
                          IF AwaitsCall(wrapper, target) THEN "await"
                          ELSE "direct"]
            /\ IF ~AwaitsCall(wrapper, target) /\ target.isasync
               THEN \* a coroutine function called without await: the
                    \* result is the coroutine object, its body never runs
                    /\ res' = [res EXCEPT ![i] = Returns("coroutine")]
                    /\ pc' = [pc EXCEPT ![i] = "exit"]
                    /\ UNCHANGED <<outVars, cur>>
               ELSE /\ Emit(i, "call")
                    /\ IF AwaitsCall(wrapper, target) /\ target.isasync /\ susp
                       THEN /\ pc' = [pc EXCEPT ![i] = "await"]
                            /\ cur' = 0
                            /\ UNCHANGED res
                       ELSE /\ pc' = [pc EXCEPT ![i] = "exit"]
                            /\ res' = [res EXCEPT ![i] =
                                  IF AwaitsCall(wrapper, target)
                                     /\ ~target.isasync /\ r.kind = "return"
                                  THEN Raises("TypeError") \* await <non-awaitable>
                                  ELSE r]
                            /\ UNCHANGED cur
    /\ UNCHANGED <<wrapper, target, scopeVars, agentVars, valid, outcome,
                   cancelReq, ctorRuns, inst>>
    /\ UNCHANGED <<ret, pureVars>>

\* The loop resumes an invocation suspended in its await.  A cancelled task
\* gets CancelledError thrown in at the await.
Resume(i, r) ==
    /\ cur = 0
    /\ pc[i] = "await"
    /\ IF cancelReq[i]
       THEN /\ res' = [res EXCEPT ![i] = Raises("CancelledError")]
            /\ UNCHANGED outVars
       ELSE /\ res' = [res EXCEPT ![i] = r]
            /\ Emit(i, "call")
    /\ pc' = [pc EXCEPT ![i] = "exit"]
    /\ cur' = i
    /\ UNCHANGED <<wrapper, target, scopeVars, countVars, agentVars, valid,
                   outcome, cancelReq>>
    /\ UNCHANGED <<ret, pureVars>>

\* Leaving the with block, then the wrapper returns or raises.
Exit(i) ==
    /\ cur = i
    /\ pc[i] = "exit"
    /\ ExitScope(i)
    /\ UNCHANGED saved
    /\ outcome' = [outcome EXCEPT ![i] = Propagate(Finish(wrapper, res[i]))]
    /\ ret' = [ret EXCEPT ![i] = Returned(wrapper, outcome'[i])]
    /\ pc' = [pc EXCEPT ![i] = "done"]
    /\ cur' = 0
    /\ UNCHANGED <<wrapper, target, outVars, countVars, agentVars, valid, res,
                   cancelReq, pureVars>>

(***************************************************************************)
(* The mcp-agent wrapper: a future, a background task, no scope.           *)
(***************************************************************************)
Pending == [kind |-> "pending", val |-> ""]
Cancelled == [kind |-> "cancelled", val |-> ""]

\* result_future = asyncio.Future(); task = asyncio.create_task(...);
\* await result_future.
Spawn(i) ==
    /\ cur = i
    /\ pc[i] = "spawn"
    /\ fut' = [fut EXCEPT ![i] = Pending]
    /\ bg' = [bg EXCEPT ![i] = "scheduled"]
    /\ pc' = [pc EXCEPT ![i] = "await_future"]
    /\ cur' = 0
    /\ UNCHANGED <<wrapper, target, scopeVars, outVars, countVars, valid, res,
                   outcome, cancelReq, bgCancelReq, hist>>
    /\ UNCHANGED <<ret, pureVars>>

\* Variant: the task sets the future without looking at it.
NotDoneUnchecked(f) == TRUE

\* not result_future.done()
NotDone(f) == f.kind = "pending"

\* if not result_future.done(): result_future.set_result / set_exception
Resolve(f, r) == IF NotDone(f) THEN r ELSE f

BgDone(i) == bg[i] \in {"finished", "cancelled"}

\* What isolated_agent_task did: a step was started, a step ended ("ok", the
\* exception it raised, or "cancelled"), the future was set (in which state
\* the call found it).
Started(step) == [ev |-> "start", what |-> step]
Ended(how) == [ev |-> "end", what |-> how]
FutureSet(kind) == [ev |-> "set", what |-> kind]

\* The statement after the await of a step that returned.
StepAfter(step) ==
    CASE step = "init" -> "attach"
      [] step = "attach" -> "generate"
      [] step = "generate" -> "finished"

\* Variant: each step has its own try / except and the task goes on.
AfterStepGoingOn(step, r) == StepAfter(step)

\* Where the task is after the await of a step ended with r: the three
\* awaits are in one try block, an exception leaves it.
AfterStep(step, r) ==
    IF r.kind = "raise" THEN "finished" ELSE StepAfter(step)

\* isolated_agent_task runs from one await to the next: app_initialize_fn,
\* attach_llm, generate_str.  A cancelled task gets CancelledError at its
\* await, which "except Exception" does not catch.
BgStep(i, r) ==
    /\ cur = 0
    /\ bg[i] \in {"scheduled", "init", "attach", "generate"}
    /\ IF bgCancelReq[i]
       THEN /\ bg' = [bg EXCEPT ![i] = "cancelled"]
            /\ hist' = [hist EXCEPT ![i] = Append(@, Ended("cancelled"))]
            /\ UNCHANGED <<fut, outVars>>
       ELSE IF bg[i] = "scheduled"
       THEN /\ bg' = [bg EXCEPT ![i] = "init"]
            /\ hist' = [hist EXCEPT ![i] = Append(@, Started("init"))]
            /\ Emit(i, "init")
            /\ UNCHANGED fut
       ELSE LET next == AfterStep(bg[i], r)
                ended == Append(hist[i],
                                Ended(IF r.kind = "raise" THEN r.val
                                      ELSE "ok"))
            IN
            /\ bg' = [bg EXCEPT ![i] = next]
            /\ IF next = "finished"
               THEN /\ fut' = [fut EXCEPT ![i] = Resolve(@, r)]
                    /\ hist' = [hist EXCEPT ![i] =
                                  IF NotDone(fut[i])
                                  THEN Append(ended, FutureSet(fut[i].kind))
                                  ELSE ended]
                    /\ UNCHANGED outVars
               ELSE /\ hist' = [hist EXCEPT ![i] =
                                  Append(ended, Started(next))]
                    /\ Emit(i, next)
                    /\ UNCHANGED fut
    /\ UNCHANGED <<wrapper, target, scopeVars, countVars, cur, pc, valid, res,
                   outcome, cancelReq, bgCancelReq>>
    /\ UNCHANGED <<ret, pureVars>>

\* The agent task is cancelled by someone else than the wrapper (the host
\* cancels the tasks of its loop, the agent framework cancels its own):
\* Task.cancel() on the task of create_task.
BgCancel(i) ==
    /\ cur = 0
    /\ bg[i] \in {"scheduled", "init", "attach", "generate"}
    /\ ~bgCancelReq[i]
    /\ bgCancelReq' = [bgCancelReq EXCEPT ![i] = TRUE]
    /\ UNCHANGED <<wrapper, target, scopeVars, outVars, countVars, cur, pc,
                   valid, res, outcome, cancelReq, fut, bg, hist>>
    /\ UNCHANGED <<ret, pureVars>>

\* Variant: the failure is raised again instead of being reported.
ReportReraises(r) == r

\* except Exception as e: return {"status": "error", "message": str(e)}
Report(r) ==
    IF r.kind = "raise" /\ r.val \in Errors THEN ErrorPayload(Str(r.val))
    ELSE r

\* Variant: the except clause re-raises without cancelling the agent task.
TaskCancelForgotten(i) == bgCancelReq

\* task.cancel(): a request, if the agent task has not ended.
TaskCancel(i) == [bgCancelReq EXCEPT ![i] = ~BgDone(i)]

\* The wrapper wakes from "await result_future".
WResume(i) ==
    /\ cur = 0
    /\ pc[i] = "await_future"
    /\ fut[i].kind # "pending"
    /\ IF cancelReq[i]
       THEN \* except asyncio.CancelledError: task.cancel(); raise
            /\ bgCancelReq' = TaskCancel(i)
            /\ outcome' = [outcome EXCEPT ![i] = Raises("CancelledError")]
            /\ UNCHANGED errOut
       ELSE /\ outcome' = [outcome EXCEPT ![i] = Report(fut[i])]
            /\ errOut' = IF fut[i].kind = "raise"
                         THEN errOut \cup {<<i, "traceback">>} ELSE errOut
            /\ UNCHANGED bgCancelReq
    /\ ret' = [ret EXCEPT ![i] = Returned(wrapper, outcome'[i])]
    /\ pc' = [pc EXCEPT ![i] = "done"]
    /\ UNCHANGED <<wrapper, target, scopeVars, realOut, captured, countVars,
                   fut, bg, hist, cur, valid, res, cancelReq, pureVars>>

\* The wrapper's caller is cancelled while the wrapper is suspended:
\* Task.cancel() cancels the future the task waits on if it is still pending,
\* and the task gets CancelledError when it next runs.
Cancel(i) ==
    /\ cur = 0
    /\ pc[i] \in {"await", "await_future"}
    /\ ~cancelReq[i]
    /\ cancelReq' = [cancelReq EXCEPT ![i] = TRUE]
    /\ fut' = [fut EXCEPT ![i] = IF @.kind = "pending" THEN Cancelled ELSE @]
    /\ UNCHANGED <<wrapper, target, scopeVars, outVars, countVars, bg,
                   bgCancelReq, hist, cur, pc, valid, res, outcome>>
    /\ UNCHANGED <<ret, pureVars>>

\* The host replaces the target's entry point after the wrapper was built:
\* a coroutine function by a plain one or the other way round.
ReplaceMethod ==
    /\ wrapper # NoWrapper
    /\ cur = 0
    /\ target.has
    /\ target' = [target EXCEPT !.isasync = ~@]
    /\ UNCHANGED <<wrapper, scopeVars, outVars, countVars, agentVars, cur, pc,
                   valid, res, outcome, cancelReq>>
    /\ UNCHANGED <<ret, pureVars>>

Next ==
    \/ \E a \in Adapters : \E t \in TargetsFor(a) : \E p \in BOOLEAN :
          Build(a, t, p)
    \/ \E i \in Calls : \E v \in BOOLEAN : Start(i, v)
    \/ \E i \in Calls : Validate(i)
    \/ \E i \in Calls : Instantiate(i)
    \/ \E i \in Calls : Lookup(i)
    \/ \E i \in Calls : Enter(i)
    \/ \E i \in Calls : \E r \in Results : \E susp \in BOOLEAN : Call(i, r, susp)
    \/ \E i \in Calls : \E r \in Results : Resume(i, r)
    \/ \E i \in Calls : Exit(i)
    \/ \E i \in Calls : Spawn(i)
    \/ \E i \in Calls : \E r \in Results : BgStep(i, r)
    \/ \E i \in Calls : BgCancel(i)
    \/ \E i \in Calls : WResume(i)
    \/ \E i \in Calls : Cancel(i)
    \/ ReplaceMethod

Spec == Init /\ [][Next]_vars

\* The event loop runs every task that is ready: a wrapper whose future is
\* done is woken, an agent task that was started or cancelled gets its next
\* step.  The host's own moves (new calls, cancellations) are not forced.
LiveSpec ==
    /\ Spec
    /\ \A i \in Calls : WF_vars(WResume(i))
    /\ \A i \in Calls : WF_vars(\E r \in Results : BgStep(i, r))

(***************************************************************************)
(* The normalizer on its own: a value is built up around a leaf, one       *)
(* container or object at a time, and then handed to ensure_serializable.  *)
(***************************************************************************)
Leaves == {JNull, JBool(TRUE), JNum(1), JStr("a"), Opaque("<o>")}

\* Objects that hold v, by the attributes they offer.
ObjectsAround(v) ==
    {Object(Gives(v), Absent, NoDict, Absent, "<a>"),
     Object(Gives(v), Gives(JStr("md")), Attrs([x |-> JNum(1)]),
            Holds(JNum(2)), "<b>"),
     Object(NotCallable, Gives(v), Attrs([x |-> JNum(1)]), Absent, "<c>"),
     Object(RaisesOnCall, Gives(v), NoDict, Absent, "<d>"),
     Object(Absent, RaisesOnCall, Attrs([x |-> v]), Absent, "<e>"),
     Object(Absent, Absent, Attrs([x |-> v, _p |-> JNum(1)]),
            Holds(JNum(2)), "<f>"),
     Object(Absent, Absent, NoDict, Holds(v), "<g>"),
     Object(Absent, Absent, NoDict, Holds(JList(<<v>>)), "<h>"),
     Object(Absent, Absent, NoDict, Holds(Tuple(<<v>>)), "<i>")}

Max(S) == IF S = {} THEN 0 ELSE CHOOSE x \in S : \A y \in S : y <= x

\* The values directly inside v.
Children(v) ==
    CASE v.t \in {"list", "tuple"} -> {v.items[i] : i \in DOMAIN v.items}
      [] v.t = "dict" ->
            {v.m[k] : k \in DOMAIN v.m}
            \cup (IF v.to_dict.c = "returns" THEN {v.to_dict.v} ELSE {})
      [] v.t = "obj" ->
            (IF v.to_dict.c = "returns" THEN {v.to_dict.v} ELSE {})
            \cup (IF v.model_dump.c = "returns" THEN {v.model_dump.v} ELSE {})
            \cup (IF v.dict.has THEN {v.dict.m[k] : k \in DOMAIN v.dict.m}
                  ELSE {})
            \cup (IF v.results.c = "value" THEN {v.results.v} ELSE {})
      [] OTHER -> {}

RECURSIVE Depth(_)
Depth(v) ==
    IF Children(v) = {} THEN 0
    ELSE 1 + Max({Depth(c) : c \in Children(v)})

NormInit ==
    /\ Idle
    /\ arg \in Leaves
    /\ out = NoValue
    /\ phase = "build"

\* The value becomes the last item of a new list.
WrapList(pre) ==
    /\ phase = "build"
    /\ Depth(JList(pre \o <<arg>>)) <= MaxDepth
    /\ arg' = JList(pre \o <<arg>>)
    /\ UNCHANGED <<mainVars, out, phase>>

\* The value becomes a value of a new dict.
WrapDict(private) ==
    /\ phase = "build"
    /\ Depth(JDict([a |-> arg])) <= MaxDepth
    /\ arg' = IF private THEN JDict([a |-> arg, _p |-> JNum(1)])
              ELSE JDict([a |-> arg])
    /\ UNCHANGED <<mainVars, out, phase>>

\* The value becomes the item of a tuple.
WrapTuple ==
    /\ phase = "build"
    /\ Depth(Tuple(<<arg>>)) <= MaxDepth
    /\ arg' = Tuple(<<arg>>)
    /\ UNCHANGED <<mainVars, out, phase>>

\* The value becomes what an object's method returns or attribute holds.
WrapObject(o) ==
    /\ phase = "build"
    /\ Depth(o) <= MaxDepth
    /\ arg' = o
    /\ UNCHANGED <<mainVars, out, phase>>

\* The value becomes a value of an instance of a dict subclass that
\* defines to_dict.
WrapSubclass ==
    /\ phase = "build"
    /\ Depth(JDict([a |-> arg])) <= MaxDepth
    /\ arg' = DictLike([a |-> arg], Gives(JDict([z |-> JNum(1)])))
    /\ UNCHANGED <<mainVars, out, phase>>

\* l.append(l) / d['me'] = d: the container is made an item of itself.
TieKnot ==
    /\ phase = "build"
    /\ arg.t \in {"list", "dict"}
    /\ arg' = IF arg.t = "list" THEN JList(arg.items \o <<Loop>>)
              ELSE DictLike([k \in DOMAIN arg.m \cup {"me"} |->
                                IF k = "me" THEN Loop ELSE arg.m[k]],
                            arg.to_dict)
    /\ phase' = "tied"
    /\ UNCHANGED <<mainVars, out>>

\* out = ensure_serializable(arg)
Normalize ==
    /\ phase \in {"build", "tied"}
    /\ out' = ensure_serializable(arg)
    /\ phase' = "done"
    /\ UNCHANGED <<mainVars, arg>>

NormNext ==
    \/ \E pre \in {<<>>, <<JNum(1)>>} : WrapList(pre)
    \/ \E private \in BOOLEAN : WrapDict(private)
    \/ WrapTuple
    \/ \E o \in ObjectsAround(arg) : WrapObject(o)
    \/ WrapSubclass
    \/ TieKnot
    \/ Normalize

NormSpec == NormInit /\ [][NormNext]_vars

(***************************************************************************)
(* Classification of the target by an ordered list of method names.        *)
(***************************************************************************)
POSSIBLE_RUN_METHODS == <<"run", "results", "load">>

\* for method_name in ['run', 'arun', 'chat', 'achat', 'invoke', 'ainvoke']
OpenAIMethodNames == <<"run", "arun", "chat", "achat", "invoke", "ainvoke">>

MethodNames(a) ==
    IF a = "openai_class" THEN OpenAIMethodNames ELSE POSSIBLE_RUN_METHODS

\* What the target has under a name: nothing, a value that is not callable,
\* a plain method, a coroutine function.
AttrKinds == {"absent", "attr", "method", "coroutine"}

IsCallableKind(k) == k \in {"method", "coroutine"}

\* The adapter raises instead of returning a wrapper.
Rejected == [ok |-> FALSE, name |-> "", isasync |-> FALSE]

Selected(name, isasync) == [ok |-> TRUE, name |-> name, isasync |-> isasync]

\* OpenAIAdapter: the loop leaves at the first name that is there and
\* callable.
RECURSIVE FirstCallable(_, _)
FirstCallable(attrs, i) ==
    IF i > Len(attrs) THEN 0
    ELSE IF attrs[i] # "absent" /\ IsCallableKind(attrs[i]) THEN i
    ELSE FirstCallable(attrs, i + 1)

\* create_langchain_tool_adapter: the loop leaves at the first name that is
\* there.
RECURSIVE FirstPresent(_, _)
FirstPresent(attrs, i) ==
    IF i > Len(attrs) THEN 0
    ELSE IF attrs[i] # "absent" THEN i
    ELSE FirstPresent(attrs, i + 1)

SelectMethod(a, attrs) ==
    IF a = "openai_class"
    THEN IF FirstCallable(attrs, 1) = 0 THEN Rejected
         ELSE Selected(MethodNames(a)[FirstCallable(attrs, 1)],
                       attrs[FirstCallable(attrs, 1)] = "coroutine")
    ELSE IF FirstPresent(attrs, 1) = 0 THEN Rejected
         ELSE IF ~IsCallableKind(attrs[FirstPresent(attrs, 1)]) THEN Rejected
         ELSE Selected(MethodNames(a)[FirstPresent(attrs, 1)],
                       attrs[FirstPresent(attrs, 1)] = "coroutine")

SelInit ==
    /\ Idle
    /\ arg \in {[adapter |-> a, attrs |-> f] :
                   a \in {"openai_class"},
                   f \in [1..Len(OpenAIMethodNames) -> AttrKinds]}
               \cup
               {[adapter |-> a, attrs |-> f] :
                   a \in {"langchain_tool"},
                   f \in [1..Len(POSSIBLE_RUN_METHODS) -> AttrKinds]}
    /\ out = NoValue
    /\ phase = "given"

\* The adapter looks for the method to call.
Classify ==
    /\ phase = "given"
    /\ out' = SelectMethod(arg.adapter, arg.attrs)
    /\ phase' = "classified"
    /\ UNCHANGED <<mainVars, arg>>

SelNext == Classify

SelSpec == SelInit /\ [][SelNext]_vars

(***************************************************************************)
(* The parameters of the wrapper, projected from the input schema, and how *)
(* a call binds its arguments to them.                                     *)
(***************************************************************************)
MaxFields == 2

FieldNames == {"a", "b", "c"}

\* The declared type of a field, as the projection sees it:
\*   builtin - it has a __name__ that names a builtin (str, int)
\*   unbound - it has a __name__ the generated code cannot resolve
\*             (Optional, List, a class of the user)
\*   unnamed - it has no __name__ (int | None)
AnnKinds == {"builtin", "unbound", "unnamed"}

Fields == [name : FieldNames, ann : AnnKinds]

\* input_schema.model_fields: fields in declaration order, names unique.
Schemas ==
    {sch \in UNION {[1..n -> Fields] : n \in 0..MaxFields} :
        \A i, j \in DOMAIN sch : sch[i].name = sch[j].name => i = j}

NamesOf(sch) == [i \in DOMAIN sch |-> sch[i].name]

\* How the adapter writes the annotation of a parameter.
ParamStyle(a) ==
    CASE a \in {"crewai_class", "crewai_agent", "crewai_orchestrator"} ->
            "name"
      [] a = "mcp_agent" -> "signature"
      [] OTHER -> "name_or_any"

\* field_info.annotation.__name__ [if hasattr(...) else 'Any']
AnnotationText(style, ann) ==
    CASE ann = "builtin" -> "str"
      [] ann = "unbound" -> "Optional"
      [] ann = "unnamed" /\ style = "name_or_any" -> "Any"
      [] ann = "unnamed" /\ style = "name" -> "AttributeError"

\* Whether exec(body_str, namespace) can evaluate the annotation: the
\* namespace holds input_schema, the target, contextlib, io, asyncio,
\* inspect; builtins are added by exec.
Resolves(text) == text = "str"

BuildFailed(e) ==
    [ok |-> FALSE, error |-> e, params |-> <<>>, positional |-> FALSE]

BuiltWrapper(params, positional) ==
    [ok |-> TRUE, error |-> "", params |-> params, positional |-> positional]

\* params_str, exec of the generated def / inspect.Signature(parameters).
Project(a, sch) ==
    IF ParamStyle(a) = "signature"
    THEN \* async def run_agent(**kwargs) with __signature__ set
         BuiltWrapper(NamesOf(sch), FALSE)
    ELSE IF \E i \in DOMAIN sch :
               AnnotationText(ParamStyle(a), sch[i].ann) = "AttributeError"
    THEN BuildFailed("AttributeError")
    ELSE IF \E i \in DOMAIN sch :
               ~Resolves(AnnotationText(ParamStyle(a), sch[i].ann))
    THEN BuildFailed("NameError")
    ELSE BuiltWrapper(NamesOf(sch), TRUE)

\* The Structured Input Instance: input_schema(a=..., b=...).
Instance(names, values) ==
    [k \in {names[i] : i \in DOMAIN names} |->
        values[CHOOSE i \in DOMAIN names : names[i] = k]]

\* A call of the wrapper with the value i for the i-th field of the schema,
\* all by position or all by keyword.
Bind(w, sch, byPosition) ==
    IF byPosition
    THEN IF ~w.positional /\ Len(sch) > 0 THEN Raised("TypeError")
         ELSE Instance(w.params, [i \in DOMAIN sch |-> i])
    ELSE Instance(NamesOf(sch), [i \in DOMAIN sch |-> i])

SigInit ==
    /\ Idle
    /\ arg \in [adapter : Adapters, schema : Schemas]
    /\ out = NoValue
    /\ phase = "given"

\* The adapter builds the wrapper's signature.
ProjectSignature ==
    /\ phase = "given"
    /\ out' = Project(arg.adapter, arg.schema)
    /\ phase' = "built"
    /\ UNCHANGED <<mainVars, arg>>

\* The wrapper is called and builds its input.
Invoke(byPosition) ==
    /\ phase = "built"
    /\ out.ok
    /\ out' = [w |-> out, byPosition |-> byPosition,
               input |-> Bind(out, arg.schema, byPosition)]
    /\ phase' = "called"
    /\ UNCHANGED <<mainVars, arg>>

SigNext ==
    \/ ProjectSignature
    \/ \E byPosition \in BOOLEAN : Invoke(byPosition)

SigSpec == SigInit /\ [][SigNext]_vars

(***************************************************************************)
(* The OpenAI orchestrator wrapper (create_openai_orchestrator_adapter):   *)
(* an optional hook awaited before the suppression scope, the main agent   *)
(* and an optional hook awaited inside it.  hist records the steps of an   *)
(* invocation, mode the value of before_run_result.                        *)
(***************************************************************************)
\* What the caller passed as run_before_func / run_after_func: nothing, an
\* object that is not callable, a plain function, a coroutine function.
HookKinds == {"absent", "attr", "function", "coroutine"}

\* Variant: a hook is run whenever one was passed.
HookRunsIfPassed(h) == h # "absent"

\* 'run_before_func' in globals() and callable(run_before_func): the name is
\* in the namespace only if a truthy value was passed.
HookRuns(h) == h \in {"function", "coroutine"}

create_openai_orchestrator_adapter(pre, post) ==
    [adapter |-> "openai_orchestrator", pre |-> pre, post |-> post]

IsOrchestrator == wrapper.adapter = "openai_orchestrator"

BuildOrchestrator(pre, post) ==
    /\ wrapper = NoWrapper
    /\ wrapper' = create_openai_orchestrator_adapter(pre, post)
    /\ UNCHANGED <<target, scopeVars, outVars, countVars, agentVars, cur, pc,
                   valid, res, outcome, cancelReq>>
    /\ UNCHANGED <<ret, pureVars>>

OrchValidate(i) ==
    /\ IsOrchestrator
    /\ cur = i
    /\ pc[i] = "validate"
    /\ IF Conforms(i)
       THEN /\ pc' = [pc EXCEPT ![i] =
                        IF HookRuns(wrapper.pre) THEN "pre" ELSE "enter"]
            /\ UNCHANGED <<outcome, cur>>
       ELSE /\ pc' = [pc EXCEPT ![i] = "done"]
            /\ outcome' = [outcome EXCEPT ![i] = Raises("ValidationError")]
            /\ cur' = 0
    /\ UNCHANGED <<wrapper, target, scopeVars, outVars, countVars, agentVars,
                   valid, res, cancelReq>>
    /\ UNCHANGED <<ret, pureVars>>

\* await f(...): what the await gives when the call of hook f ended with r.
\* A plain function returns a value that cannot be awaited.
AwaitOf(h, r) ==
    IF h = "function" /\ r.kind = "return" THEN Raises("TypeError") ELSE r

\* What the await of hook or agent h gives the invocation when the awaited
\* call ended with r: CancelledError if its task was cancelled meanwhile.
Awaited(i, h, r) ==
    IF cancelReq[i] THEN Raises("CancelledError") ELSE AwaitOf(h, r)

\* The pre-hook can return None, a run result (it has to_input_list) or
\* another truthy value.
PreResults ==
    {Returns("falsy"), Returns("input"), Returns("other"),
     Raises("RuntimeError")}

\* before_run_result = await run_before_func(*list(input_dict.values())):
\* the call; a coroutine is suspended at the await.
PreHook(i) ==
    /\ IsOrchestrator
    /\ cur = i
    /\ pc[i] = "pre"
    /\ Emit(i, "pre")
    /\ hist' = [hist EXCEPT ![i] = Append(@, Started("pre"))]
    /\ pc' = [pc EXCEPT ![i] = "pre_wait"]
    /\ cur' = IF wrapper.pre = "coroutine" THEN 0 ELSE i
    /\ UNCHANGED <<wrapper, target, scopeVars, countVars, fut, bg,
                   bgCancelReq, valid, res, outcome, cancelReq>>
    /\ UNCHANGED <<ret, pureVars>>

\* The await of the pre-hook is over: before_run_result is bound, or the
\* exception leaves the wrapper (the scope is not open yet).
AfterPre(i, r) ==
    /\ IsOrchestrator
    /\ cur \in {0, i}
    /\ pc[i] = "pre_wait"
    /\ LET got == Awaited(i, wrapper.pre, r)
       IN IF got.kind = "raise"
          THEN /\ hist' = [hist EXCEPT ![i] = Append(@, Ended(got.val))]
               /\ outcome' = [outcome EXCEPT ![i] = got]
               /\ pc' = [pc EXCEPT ![i] = "done"]
               /\ cur' = 0
               /\ UNCHANGED mode
          ELSE /\ hist' = [hist EXCEPT ![i] = Append(@, Ended("ok"))]
               /\ mode' = [mode EXCEPT ![i] = got.val]
               /\ pc' = [pc EXCEPT ![i] = "enter"]
               /\ cur' = i
               /\ UNCHANGED outcome
    /\ UNCHANGED <<wrapper, target, scopeVars, outVars, ctorRuns, inst, calls,
                   fut, bg, bgCancelReq, valid, res, cancelReq>>
    /\ UNCHANGED <<ret, pureVars>>

\* with contextlib.redirect_stdout(io.StringIO()):
OrchEnter(i) ==
    /\ IsOrchestrator
    /\ cur = i
    /\ pc[i] = "enter"
    /\ EnterScope(i)
    /\ pc' = [pc EXCEPT ![i] = "main"]
    /\ UNCHANGED <<wrapper, target, outVars, countVars, agentVars, cur, valid,
                   res, outcome, cancelReq>>
    /\ UNCHANGED <<ret, pureVars>>

\* if before_run_result: truthiness of the pre-hook's result (None when no
\* hook ran).
Truthy(before) == before \in {"input", "other"}

\* Variant: the main agent is always given the raw input values.
MainInputAlwaysRaw(before) == "raw"

\* What the main agent is run on: before_run_result.to_input_list() or
\* *list(input_dict.values()).
MainInput(before) == IF Truthy(before) THEN "pre" ELSE "raw"

RunMain(on) == [ev |-> "main", what |-> on]

\* main_agent_result = await Runner.run(main_agent_instance, ...): the
\* call; the run is suspended at the await.
MainAgent(i) ==
    /\ IsOrchestrator
    /\ cur = i
    /\ pc[i] = "main"
    /\ IF mode[i] = "other"
       THEN \* the truthy result has no to_input_list
            /\ res' = [res EXCEPT ![i] = Raises("AttributeError")]
            /\ pc' = [pc EXCEPT ![i] = "exit"]
            /\ UNCHANGED <<outVars, hist, cur>>
       ELSE /\ Emit(i, "main")
            /\ hist' = [hist EXCEPT ![i] =
                          Append(@, RunMain(MainInput(mode[i])))]
            /\ pc' = [pc EXCEPT ![i] = "main_wait"]
            /\ cur' = 0
            /\ UNCHANGED res
    /\ UNCHANGED <<wrapper, target, scopeVars, countVars, fut, bg,
                   bgCancelReq, valid, outcome, cancelReq>>
    /\ UNCHANGED <<ret, pureVars>>

MainResults == {Returns("main"), Raises("RuntimeError")}

AfterMain(i, r) ==
    /\ IsOrchestrator
    /\ cur = 0
    /\ pc[i] = "main_wait"
    /\ LET got == Awaited(i, "coroutine", r)
       IN /\ hist' = [hist EXCEPT ![i] =
                        Append(@, Ended(IF got.kind = "raise" THEN got.val
                                        ELSE "ok"))]
          /\ res' = [res EXCEPT ![i] = got]
          /\ pc' = [pc EXCEPT ![i] =
                      IF got.kind = "raise" THEN "exit"
                      ELSE IF HookRuns(wrapper.post) THEN "post"
                      ELSE "print"]
    /\ cur' = i
    /\ UNCHANGED <<wrapper, target, scopeVars, outVars, countVars, fut, bg,
                   bgCancelReq, valid, outcome, cancelReq>>
    /\ UNCHANGED <<ret, pureVars>>

\* The post-hook returns a run result or a value without final_output.
PostResults == {Returns("post"), Returns("bare"), Raises("RuntimeError")}

RunPost(on) == [ev |-> "post", what |-> on]

\* result = await run_after_func(main_agent_result): the call; a coroutine
\* is suspended at the await.
PostHook(i) ==
    /\ IsOrchestrator
    /\ cur = i
    /\ pc[i] = "post"
    /\ Emit(i, "post")
    /\ hist' = [hist EXCEPT ![i] = Append(@, RunPost(res[i].val))]
    /\ pc' = [pc EXCEPT ![i] = "post_wait"]
    /\ cur' = IF wrapper.post = "coroutine" THEN 0 ELSE i
    /\ UNCHANGED <<wrapper, target, scopeVars, countVars, fut, bg,
                   bgCancelReq, valid, res, outcome, cancelReq>>
    /\ UNCHANGED <<ret, pureVars>>

AfterPost(i, r) ==
    /\ IsOrchestrator
    /\ cur \in {0, i}
    /\ pc[i] = "post_wait"
    /\ LET got == Awaited(i, wrapper.post, r)
       IN /\ hist' = [hist EXCEPT ![i] =
                        Append(@, Ended(IF got.kind = "raise" THEN got.val
                                        ELSE "ok"))]
          /\ res' = [res EXCEPT ![i] = got]
          /\ pc' = [pc EXCEPT ![i] =
                      IF got.kind = "raise" THEN "exit" ELSE "print"]
    /\ cur' = i
    /\ UNCHANGED <<wrapper, target, scopeVars, outVars, countVars, fut, bg,
                   bgCancelReq, valid, outcome, cancelReq>>
    /\ UNCHANGED <<ret, pureVars>>

\* print(result), inside the scope.
PrintResult(i) ==
    /\ IsOrchestrator
    /\ cur = i
    /\ pc[i] = "print"
    /\ Emit(i, "print")
    /\ pc' = [pc EXCEPT ![i] = "exit"]
    /\ UNCHANGED <<wrapper, target, scopeVars, countVars, agentVars, cur,
                   valid, res, outcome, cancelReq>>
    /\ UNCHANGED <<ret, pureVars>>

\* Variant: the wrapper returns the main agent's output whatever the
\* post-hook gave.
FinalOutputOfMain(r) ==
    IF r.kind = "raise" THEN r ELSE Returns("main.final_output")

\* return result.final_output
FinalOutput(r) ==
    IF r.kind = "raise" THEN r
    ELSE IF r.val = "main" THEN Returns("main.final_output")
    ELSE IF r.val = "post" THEN Returns("post.final_output")
    ELSE Raises("AttributeError")

\* Leaving the with block, then the return statement or the exception.
OrchExit(i) ==
    /\ IsOrchestrator
    /\ cur = i
    /\ pc[i] = "exit"
    /\ ExitScope(i)
    /\ UNCHANGED saved
    /\ outcome' = [outcome EXCEPT ![i] = FinalOutput(res[i])]
    /\ ret' = [ret EXCEPT ![i] =
                 IF outcome'[i].kind = "return" THEN JStr(outcome'[i].val)
                 ELSE NoValue]
    /\ pc' = [pc EXCEPT ![i] = "done"]
    /\ cur' = 0
    /\ UNCHANGED <<wrapper, target, outVars, countVars, agentVars, valid, res,
                   cancelReq, pureVars>>

\* The wrapper's caller is cancelled while the wrapper is suspended in one
\* of its awaits.
OrchCancel(i) ==
    /\ IsOrchestrator
    /\ cur = 0
    /\ pc[i] \in {"pre_wait", "main_wait", "post_wait"}
    /\ ~cancelReq[i]
    /\ cancelReq' = [cancelReq EXCEPT ![i] = TRUE]
    /\ UNCHANGED <<wrapper, target, scopeVars, outVars, countVars, agentVars,
                   cur, pc, valid, res, outcome>>
    /\ UNCHANGED <<ret, pureVars>>

OrchNext ==
    \/ \E pre \in HookKinds : \E post \in HookKinds :
          BuildOrchestrator(pre, post)
    \/ \E i \in Calls : \E v \in BOOLEAN : Start(i, v)
    \/ \E i \in Calls : OrchValidate(i)
    \/ \E i \in Calls : PreHook(i)
    \/ \E i \in Calls : \E r \in PreResults : AfterPre(i, r)
    \/ \E i \in Calls : OrchEnter(i)
    \/ \E i \in Calls : MainAgent(i)
    \/ \E i \in Calls : \E r \in MainResults : AfterMain(i, r)
    \/ \E i \in Calls : PostHook(i)
    \/ \E i \in Calls : \E r \in PostResults : AfterPost(i, r)
    \/ \E i \in Calls : PrintResult(i)
    \/ \E i \in Calls : OrchExit(i)
    \/ \E i \in Calls : OrchCancel(i)

OrchSpec == Init /\ [][OrchNext]_vars

(***************************************************************************)
(* Properties                                                              *)
(***************************************************************************)
Built == wrapper # NoWrapper

HasScope == Built /\ Cfg(wrapper.adapter).scope

IsAgent == Built /\ wrapper.adapter = "mcp_agent"

\* The writers that are the target's entry point running: the call of the
\* generated wrappers, the three steps of the mcp-agent task.
TargetWriters == {"call", "init", "attach", "generate"}

\* C1: while two invocations of a wrapper around an asynchronous target
\* overlap, each suspended at its await inside its own suppression scope, no
\* text of either target reaches the real standard output: an invocation
\* that leaves its scope does not take the suppression away from a sibling
\* that is still inside its own.
C1_NoLeakBetweenSiblingScopes ==
    (HasScope /\ wrapper.wasync) =>
        /\ \A i \in Calls : pc[i] = "await" => stdout # RealStream
        /\ \A i \in Calls : <<i, "call">> \notin realOut

\* C2: for a single invocation of a wrapper that opens a suppression scope
\* (no other invocation was started), when the invocation ends - by a normal
\* return, an exception of the target or cancellation at the await -
\* sys.stdout is again the stream it was before the invocation, which for a
\* single invocation is the real stream.
C2_StreamRestoredOnEveryExit ==
    [][\A i \in Calls :
          (/\ HasScope
           /\ pc[i] # "done"
           /\ pc'[i] = "done"
           /\ \A j \in Calls \ {i} : pc[j] = "idle")
          => stdout' = RealStream]_vars

C2_Witness ==
    /\ HasScope
    /\ pc[1] = "done"
    /\ outcome[1] = Raises("CancelledError")
    /\ saved[1] = RealStream
    /\ stdout = RealStream
    /\ \A j \in Calls \ {1} : pc[j] = "idle"

\* C3: for every adapter's wrapper, mcp-agent included, what the target
\* writes to standard output while its call executes is captured and never
\* reaches the real standard output, and what it writes to the error stream
\* is not redirected.
C3_TargetOutputSuppressed ==
    /\ \A x \in realOut : x[2] \notin TargetWriters
    /\ \A x \in realOut \cup captured : x \in errOut

\* C4: when the caller of the mcp-agent wrapper was cancelled while the
\* wrapper awaited the result, the wrapper ends by raising the cancellation,
\* never by returning a value or an error mapping, and the agent task has
\* ended or has a cancellation request.
C4_CancelledCallerCancelsTask ==
    IsAgent =>
        \A i \in Calls :
            (cancelReq[i] /\ pc[i] = "done") =>
                /\ outcome[i] = Raises("CancelledError")
                /\ BgDone(i) \/ bgCancelReq[i]

C4_Witness ==
    /\ IsAgent
    /\ pc[1] = "done"
    /\ cancelReq[1]
    /\ outcome[1] = Raises("CancelledError")
    /\ bg[1] = "attach"
    /\ bgCancelReq[1]

C6_TargetExceptionPropagates ==
    (Built /\ Cfg(wrapper.adapter).policy = "propagate") =>
        \A i \in Calls :
            (pc[i] = "done" /\ res[i].kind = "raise" /\ res[i].val \in Errors)
                => outcome[i] = Raises(res[i].val)

C6_Witness ==
    /\ Built
    /\ Cfg(wrapper.adapter).policy = "propagate"
    /\ pc[1] = "done"
    /\ res[1] = Raises("KeyError")
    /\ outcome[1] = Raises("KeyError")

\* C7: an invocation whose arguments do not fit the input schema fails with
\* a validation error and nothing of the target has run for it: no
\* instantiation, no call of the entry point, no write, no future and no
\* background task.
C7_ValidationBeforeTarget ==
    \A i \in Calls :
        (pc[i] # "idle" /\ ~valid[i]) =>
            /\ pc[i] \in {"validate", "done"}
            /\ pc[i] = "done" => outcome[i] = Raises("ValidationError")
            /\ ctorRuns[i] = 0
            /\ inst[i] = 0
            /\ calls[i] = 0
            /\ bg[i] = "none"
            /\ fut[i] = None
            /\ \A x \in realOut \cup captured \cup errOut : x[1] # i

C7_Witness ==
    /\ Built
    /\ wrapper.adapter \in {"langgraph_adapter", "mcp_agent"}
    /\ target.kind \in {"class", "instance"}
    /\ ~valid[1]
    /\ pc[1] = "done"
    /\ outcome[1] = Raises("ValidationError")

\* C8: for a class target that has the method, every invocation that gets
\* past the validation of its arguments instantiates the class once and
\* calls the method once, on the instance made for this call; no instance
\* serves two calls, and when n such invocations have ended the constructor
\* has run n times.
ClassTarget ==
    /\ Built
    /\ Cfg(wrapper.adapter).ctor # "none"
    /\ target.kind = "class"
    /\ target.has

RECURSIVE SumOver(_, _)
SumOver(f, S) ==
    IF S = {} THEN 0
    ELSE LET x == CHOOSE y \in S : TRUE IN f[x] + SumOver(f, S \ {x})

C9_MissingMethodRejectedAtBuild ==
    \A i \in Calls :
        /\ res[i] # Raises("AttributeError")
        /\ outcome[i] # Raises("AttributeError")

\* C10: the choice between awaiting the call and calling directly is made
\* when the wrapper is built, from the adapter's inspection of the entry
\* point then; the closure never changes afterwards and every invocation
\* calls the way the closure says, also after the entry point was replaced.
C10_AwaitDecisionFrozen ==
    [][/\ Built => wrapper' = wrapper
       /\ (~Built /\ wrapper' # NoWrapper
           /\ Cfg(wrapper'.adapter).await = "inspect")
          => wrapper'.awaitKw = target'.isasync
       /\ \A i \in Calls :
             mode'[i] # "none" =>
                mode'[i] = IF wrapper'.awaitKw THEN "await" ELSE "direct"]_vars

C10_Witness ==
    /\ Built
    /\ Cfg(wrapper.adapter).await = "inspect"
    /\ ~wrapper.awaitKw
    /\ target.isasync
    /\ \E i \in Calls :
          /\ pc[i] = "done"
          /\ mode[i] = "direct"
          /\ outcome[i] = Returns("coroutine")

\* C16: on every successful invocation of a wrapper the target's raw
\* result is passed through the Result Normalizer, and the value the
\* wrapper's caller receives is that normalized value.
C16_ResultNormalized ==
    Built =>
        \A i \in Calls :
            (pc[i] = "done" /\ outcome[i].kind = "return") =>
                ret[i] = ensure_serializable(Denote(res[i].val))

\* The values built only from None, booleans, numbers, strings, lists and
\* dicts, none of which contains itself.
RECURSIVE IsJson(_)
IsJson(v) ==
    \/ v.t \in {"null", "bool", "num", "str"}
    \/ /\ v.t = "list"
       /\ \A i \in DOMAIN v.items : IsJson(v.items[i])
    \/ /\ v.t = "dict"
       /\ v.to_dict = Absent
       /\ \A k \in DOMAIN v.m : IsJson(v.m[k])

\* C17: for every acyclic value built only from null, booleans, numbers,
\* strings, lists and mappings the normalizer returns an equal value, and
\* the normalizer applied to its own output returns that output unchanged.
C17_IdentityOnJsonValues ==
    (phase = "done" /\ IsJson(arg)) =>
        /\ out = arg
        /\ ensure_serializable(out) = out

C17_Witness ==
    /\ phase = "done"
    /\ arg = JList(<<JNum(1), JDict([a |-> JStr("a"), _p |-> JNum(1)])>>)
    /\ out = arg

\* C18: whatever the input, a result of the normalizer is built only from
\* mappings, sequences, strings, numbers, booleans and null at every depth:
\* no unconverted object is left as a value anywhere inside it.
C18_ResultIsJsonSafe ==
    (phase = "done" /\ out.t # "raised") => IsJson(out)

C18_Witness ==
    /\ phase = "done"
    /\ arg = JList(<<JNum(1), JDict([a |-> Opaque("<o>")])>>)
    /\ out = JList(<<JNum(1), JDict([a |-> JStr("<o>")])>>)

\* C19: the normalizer never raises to its caller: for every input it
\* returns a value.
C19_NormalizerNeverRaises ==
    phase = "done" => out.t # "raised"

\* C20 as stated: for every object o that exposes a callable to_dict, the
\* normalizer's result for o equals its result for what o.to_dict() returns.
C20_ToDictForEveryObject ==
    (/\ phase = "done"
     /\ arg.t \in {"obj", "dict"}
     /\ arg.to_dict.c = "returns")
        => out = ensure_serializable(arg.to_dict.v)

\* C20 as amended: for every object o that is not itself a dict, a list or
\* a primitive and exposes a callable to_dict, the normalizer's result for
\* o equals its result for what o.to_dict() returns.
C20_ToDictForOtherObjects ==
    (/\ phase = "done"
     /\ ~IsBasic(arg)
     /\ HasCallable(arg, "to_dict")
     /\ arg.to_dict.c = "returns")
        => out = ensure_serializable(arg.to_dict.v)

C20_Witness ==
    /\ phase = "done"
    /\ arg = Object(Gives(JList(<<Opaque("<o>")>>)), Gives(JStr("md")),
                    Attrs([x |-> JNum(1)]), Holds(JNum(2)), "<b>")
    /\ out = JList(<<JStr("<o>")>>)

\* C11: when classification probes an ordered list of method names, the
\* method selected is the first name in list order that the target exposes
\* as a callable attribute, whatever else the target exposes.
C11_FirstCallableCandidateWins ==
    phase = "classified" =>
        LET callable == {i \in DOMAIN arg.attrs : IsCallableKind(arg.attrs[i])}
        IN  callable # {} =>
               /\ out.ok
               /\ out.name = MethodNames(arg.adapter)
                                [CHOOSE i \in callable :
                                    \A j \in callable : i <= j]

\* C12: the wrapper's parameters are exactly the schema's fields in schema
\* order, and a call that gives a value for every field by position builds
\* the same input as the call that gives the same values by keyword.
C12_PositionalSameAsKeyword ==
    phase = "called" =>
        /\ out.w.params = NamesOf(arg.schema)
        /\ out.input = Instance(NamesOf(arg.schema),
                                [i \in DOMAIN arg.schema |-> i])

\* C13: building a wrapper succeeds for every input schema: a field whose
\* declared type has no resolvable name becomes an open parameter and the
\* build never fails because of a declared type.
C13_BuildSucceedsForEverySchema ==
    phase = "built" => out.ok

\* C14: building a wrapper never runs the target: nothing of the target
\* has run when the adapter returns (no instantiation, no call of the entry
\* point, no write), and whatever of the target runs later belongs to an
\* invocation of the wrapper that has started.
C14_BuildNeverRunsTarget ==
    /\ \A x \in realOut \cup captured \cup errOut : x[1] \in Calls
    /\ \A i \in Calls :
          pc[i] = "idle" =>
             /\ ctorRuns[i] = 0
             /\ inst[i] = 0
             /\ calls[i] = 0
             /\ \A x \in realOut \cup captured \cup errOut : x[1] # i

C14_Witness ==
    /\ Built
    /\ target.kind = "class"
    /\ target.has
    /\ pc[1] = "done"
    /\ ctorRuns[1] = 1
    /\ calls[1] = 1
    /\ pc[2] = "idle"
    /\ ctorRuns[2] = 0
    /\ \A x \in realOut \cup captured \cup errOut : x[1] = 1

\* C15 as stated: every adapter returns an asynchronous wrapper, whether the
\* target's entry point is synchronous or asynchronous.
C15_EveryWrapperAsync ==
    Built => wrapper.wasync

\* The adapters whose generated wrapper is a plain def.
SyncWrappers == {"crewai_class", "crewai_agent", "crewai_orchestrator"}

\* C15 as amended: every adapter but the CrewAI agent and crew adapters and
\* the LlamaIndex tool adapter returns an asynchronous wrapper, whether the
\* target's entry point is synchronous or asynchronous; the CrewAI agent and
\* crew wrappers are synchronous, and the LlamaIndex tool wrapper is
\* asynchronous exactly when it was built with is_async_tool true.
C15_WrapperAsyncButCrewAI ==
    Built =>
        IF wrapper.adapter \in SyncWrappers THEN ~wrapper.wasync
        ELSE IF wrapper.adapter = "llamaindex_tool"
        THEN wrapper.wasync = wrapper.awaitKw
        ELSE wrapper.wasync

C15_Witness ==
    /\ Built
    /\ wrapper.adapter = "function"
    /\ ~target.isasync
    /\ wrapper.wasync
    /\ pc[1] = "done"
    /\ mode[1] = "direct"
    /\ outcome[1] = Returns("v")

\* C21: for a value that is not a primitive, list or mapping the normalizer
\* applies one conversion only, the first the object offers in the order
\* to_dict, model_dump, public attribute mapping, results attribute.
C21_HighestPriorityStrategyOnly ==
    (phase = "done" /\ arg.t = "obj") =>
        /\ arg.to_dict.c = "returns"
              => out = ensure_serializable(arg.to_dict.v)
        /\ arg.to_dict.c = "raises" => out = JStr(arg.repr)
        /\ (arg.to_dict.c \in {"absent", "attr"}
            /\ arg.model_dump.c = "returns")
              => out = ensure_serializable(arg.model_dump.v)
        /\ (arg.to_dict.c \in {"absent", "attr"}
            /\ arg.model_dump.c \in {"absent", "attr"}
            /\ arg.dict.has)
              => out = ensure_serializable(
                          JDict([k \in DOMAIN arg.dict.m \ {"_p", "_q"}
                                    |-> arg.dict.m[k]]))
        /\ (arg.to_dict.c \in {"absent", "attr"}
            /\ arg.model_dump.c \in {"absent", "attr"}
            /\ ~arg.dict.has
            /\ arg.results.c = "value")
              => out = ensure_serializable(arg.results.v)

C21_Witness ==
    /\ phase = "done"
    /\ arg = Object(Gives(JList(<<JNum(1), JBool(TRUE)>>)), Gives(JStr("md")),
                    Attrs([x |-> JNum(1)]), Holds(JNum(2)), "<b>")
    /\ out = JList(<<JNum(1), JBool(TRUE)>>)

\* C22: every sequence value is normalized to a new sequence of the same
\* length whose i-th element is the normalizer's result for the i-th
\* element of the input.
C22_SequenceElementwise ==
    (phase = "done" /\ arg.t \in {"list", "tuple"}) =>
        /\ out.t = "list"
        /\ Len(out.items) = Len(arg.items)
        /\ \A i \in DOMAIN arg.items :
              out.items[i] = ensure_serializable(arg.items[i])

\* C23: for every object without to_dict, model_dump, attribute mapping and
\* results attribute the normalizer returns exactly str(o).
C23_NoCapabilityGivesStr ==
    (/\ phase = "done"
     /\ arg.t = "obj"
     /\ arg.to_dict = Absent
     /\ arg.model_dump = Absent
     /\ arg.dict = NoDict
     /\ arg.results = Absent)
        => out = JStr(arg.repr)

C23_Witness ==
    /\ phase = "done"
    /\ arg = Opaque("<o>")
    /\ out = JStr("<o>")

\* Invocation i has entered its suppression scope and not left it.
InScope(i) ==
    \/ pc[i] \in {"call", "await", "exit"}
    \/ pc[i] = "ctor" /\ Cfg(wrapper.adapter).ctor = "inside"

\* C24: in a wrapper whose target was classified synchronous (no await in
\* front of the call) an invocation that has entered its suppression scope
\* holds the event loop until it has left the scope: it is never suspended
\* inside, sys.stdout is its own buffer, and every other invocation has
\* either not started or already ended.
C24_SyncScopeNotInterleaved ==
    (HasScope /\ ~wrapper.awaitKw) =>
        \A i \in Calls :
            InScope(i) =>
                /\ cur = i
                /\ pc[i] # "await"
                /\ stdout = i
                /\ \A j \in Calls \ {i} : pc[j] \in {"idle", "done"}

C24_Witness ==
    /\ HasScope
    /\ ~wrapper.awaitKw
    /\ pc[1] = "done"
    /\ pc[2] = "exit"
    /\ calls[2] = 1
    /\ cur = 2
    /\ stdout = 2
    /\ <<2, "call">> \in captured

\* C25: once every invocation that was started has ended (returned, raised
\* or was cancelled), sys.stdout is the real stream again, in whatever order
\* the invocations entered and left their suppression scopes.
C25_RealStreamAfterAllFinished ==
    (/\ HasScope
     /\ \E i \in Calls : pc[i] = "done"
     /\ \A i \in Calls : pc[i] \in {"idle", "done"})
        => stdout = RealStream

\* C26: every invocation of the mcp-agent wrapper whose agent task has
\* ended - by completing, by an exception or by being cancelled itself -
\* eventually ends too.
C26_WrapperEndsAfterTaskEnded ==
    \A i \in Calls : (IsAgent /\ BgDone(i)) ~> (pc[i] = "done")

SetEvents(h) == SelectSeq(h, LAMBDA e : e.ev = "set")

\* C27: the result future of an invocation of the mcp-agent wrapper is
\* resolved at most once: once it is done (result, exception or cancelled)
\* it keeps its state and the agent task makes no further set_result or
\* set_exception call on it.
C27_FutureResolvedAtMostOnce ==
    [][\A i \in Calls :
          (IsAgent /\ fut[i].kind \notin {"none", "pending"}) =>
              /\ fut'[i] = fut[i]
              /\ SetEvents(hist'[i]) = SetEvents(hist[i])
              /\ Len(SetEvents(hist[i])) <= 1]_vars

C27_Witness ==
    /\ IsAgent
    /\ cancelReq[1]
    /\ fut[1] = Cancelled
    /\ bg[1] = "finished"
    /\ hist[1][Len(hist[1])] = Ended("ok")
    /\ SetEvents(hist[1]) = <<>>

StepOrder == <<"init", "attach", "generate">>

\* The steps of the agent task of invocation i are a beginning of
\* init, attach, generate, and there was a task only for valid arguments.
StepsInOrder(i) ==
    LET started == SelectSeq(hist[i], LAMBDA e : e.ev = "start")
    IN /\ Len(started) <= Len(StepOrder)
       /\ \A k \in DOMAIN started : started[k].what = StepOrder[k]
       /\ hist[i] # <<>> => valid[i]

\* No step was started after a step that raised.
FailureStops(i) ==
    \A k \in DOMAIN hist[i] :
        (hist[i][k].ev = "end" /\ hist[i][k].what \in Errors) =>
            \A l \in DOMAIN hist[i] : l > k => hist[i][l].ev # "start"

\* The exception a step of invocation i raised, {} if none did.
Failures(i) ==
    {hist[i][k].what : k \in {k \in DOMAIN hist[i] :
                                 /\ hist[i][k].ev = "end"
                                 /\ hist[i][k].what \in Errors}}

\* C30: the agent task of an invocation runs app initialization, LLM
\* attachment and generation in that order, each at most once; after a step
\* that raised no step is run, and the invocation ends with that failure
\* (reported as the error mapping).
C30_StepsInOrderFailureIsOutcome ==
    IsAgent =>
        \A i \in Calls :
            /\ StepsInOrder(i)
            /\ FailureStops(i)
            /\ \A e \in Failures(i) :
                  pc[i] = "done" => outcome[i] = ErrorPayload(Str(e))

\* C30 amended: as above, but the invocation ends with the failure unless
\* its caller was cancelled; it then ends with the cancellation.
C30_StepsInOrderFailureOrCancellation ==
    IsAgent =>
        \A i \in Calls :
            /\ StepsInOrder(i)
            /\ FailureStops(i)
            /\ \A e \in Failures(i) :
                  pc[i] = "done" =>
                      outcome[i] = IF cancelReq[i]
                                   THEN Raises("CancelledError")
                                   ELSE ErrorPayload(Str(e))

C30_Witness ==
    /\ IsAgent
    /\ pc[1] = "done"
    /\ ~cancelReq[1]
    /\ hist[1] = <<Started("init"), Ended("ok"), Started("attach"),
                   Ended("KeyError"), FutureSet("pending")>>
    /\ outcome[1] = ErrorPayload(Str("KeyError"))

\* The writers that are code the user supplied: the constructor of a class
\* target, the target's entry point, the hooks and the main agent of the
\* orchestrator.
UserCode == {"ctor", "call", "pre", "main", "post"}

\* C28: everything of the user's code that a wrapper with a suppression
\* scope runs during an invocation - the instantiation of a class target,
\* the hooks, the call - runs inside the scope: none of its writes reaches
\* the real standard output.
C28_UserCodeInsideScope ==
    HasScope => \A x \in realOut : x[2] \notin UserCode

\* A hook was supplied: the caller passed a callable.
Supplied(h) == h \in {"function", "coroutine"}

\* The steps invocation i has run, by name, in order.
StepsRun(i) ==
    LET steps == SelectSeq(hist[i],
                           LAMBDA e : e.ev \in {"start", "main", "post"})
    IN [k \in DOMAIN steps |->
           IF steps[k].ev = "start" THEN steps[k].what ELSE steps[k].ev]

\* The steps of a whole invocation of the wrapper as it was built.
StepsExpected ==
    (IF Supplied(wrapper.pre) THEN <<"pre">> ELSE <<>>)
        \o <<"main">>
        \o (IF Supplied(wrapper.post) THEN <<"post">> ELSE <<>>)

====
